---- MODULE Spec2Model ----
(***************************************************************************)
(* A model of edubot's EduBot class (src/edubot/bot.py): the entity store   *)
(* (Bot, Thread, Message, Completion rows), the context merge and persist   *)
(* of gpt_answer, the token budget loop of __format_context, the image      *)
(* caption writer save_image_to_context, the feedback correlation of        *)
(* change_completion_score and the page summaries of summarise_url.         *)
(*                                                                         *)
(* Text is modelled as a sequence of one-character strings, so that length, *)
(* splitting on " ", concatenation and prefix stripping are computed as the *)
(* code computes them.  Timestamps are integers (seconds).  A row's primary *)
(* key is its index in the table's sequence.                                *)
(***************************************************************************)
EXTENDS Integers, Sequences, FiniteSets, TLC

VARIABLES
    keys,         \* the credentials of edubot/__init__: which are defined
    bots,         \* table Bot:        <<[username, platform]>>
    threads,      \* table Thread:     <<[thread_name, platform]>>
    messages,     \* table Message:    <<[thread, username, message, time]>>
    completions,  \* table Completion: <<[bot, message, reply_to, score]>>
    last,         \* the last public call: its arguments, locals and outcome
    fc,           \* the activation record of a stepwise __format_context run
    calls         \* the activation records of gpt_answer calls that run
                  \* at the same time, one per caller

vars == <<keys, bots, threads, messages, completions, last, fc, calls>>
store == <<bots, threads, messages, completions>>

-----------------------------------------------------------------------------
(* Bounds of the model *)

\* the Message table holds at most this many rows
MaxMessages == 2
\* the Completion table holds at most this many rows
MaxCompletions == 2
\* message timestamps range over 0..MaxTime
MaxTime == 3
\* in SpecMerge, the Message table holds at most this many rows
MaxPoolMessages == 3
\* in Spec, message timestamps range over 0..StoreMaxTime
StoreMaxTime == 1
\* a score stays within -MaxScore..MaxScore
MaxScore == 1
\* __format_context is run stepwise on contexts of at most this many entries
MaxContext == 3

-----------------------------------------------------------------------------
(* Program constants *)

\* bot.py:25
MAX_GPT_TOKENS == 7200
\* bot.py:28
MAX_IMAGE_SIZE_MB == 50
\* bot.py:389, timedelta(minutes=1, seconds=30) in seconds
LOOKBACK_SECONDS == 90

-----------------------------------------------------------------------------
(* Text *)

\* n copies of the character c
Rep(c, n) == [i \in 1..n |-> c]

\* str.split(" "): the number of parts is the number of spaces plus one
SplitCount(text) == Cardinality({i \in 1..Len(text) : text[i] = " "}) + 1

\* Python 3 round() of n/8: round half to even
RoundEighths(n) ==
    LET q == n \div 8
        r == n % 8
    IN  IF r < 4 THEN q
        ELSE IF r > 4 THEN q + 1
        ELSE IF q % 2 = 0 THEN q ELSE q + 1

\* est1 = len/4, est2 = words*0.75, round((est1+est2)/2) = round((len+3*words)/8)
estimate_tokens(text) == RoundEighths(Len(text) + 3 * SplitCount(text))

\* str.lstrip(): drop leading whitespace
RECURSIVE lstrip(_)
lstrip(text) ==
    IF text # <<>> /\ Head(text) = " " THEN lstrip(Tail(text)) ELSE text

\* whether `sub` occurs in `text` at position i
OccursAt(text, sub, i) ==
    /\ i + Len(sub) - 1 <= Len(text)
    /\ \A j \in 1..Len(sub) : text[i + j - 1] = sub[j]

\* str.replace(sub, ""): remove every non-overlapping occurrence, left to right
RECURSIVE RemoveAll(_, _)
RemoveAll(text, sub) ==
    IF text = <<>> THEN <<>>
    ELSE IF sub # <<>> /\ OccursAt(text, sub, 1)
         THEN RemoveAll(SubSeq(text, Len(sub) + 1, Len(text)), sub)
         ELSE <<Head(text)>> \o RemoveAll(Tail(text), sub)

\* str.strip(): drop leading and trailing whitespace
RECURSIVE rstrip(_)
rstrip(text) ==
    IF text # <<>> /\ text[Len(text)] = " "
    THEN rstrip(SubSeq(text, 1, Len(text) - 1)) ELSE text

strip(text) == rstrip(lstrip(text))

\* "sub in text"
Contains(text, sub) == \E i \in 1..(Len(text) + 1) : OccursAt(text, sub, i)

UpperOf ==
    [c \in {"a", "b", "c", "d", "e", "f", "g", "h", "i", "j", "k", "l", "m",
            "n", "o", "p", "q", "r", "s", "t", "u", "v", "w", "x", "y", "z"} |->
        CASE c = "a" -> "A" [] c = "b" -> "B" [] c = "c" -> "C" [] c = "d" -> "D"
          [] c = "e" -> "E" [] c = "f" -> "F" [] c = "g" -> "G" [] c = "h" -> "H"
          [] c = "i" -> "I" [] c = "j" -> "J" [] c = "k" -> "K" [] c = "l" -> "L"
          [] c = "m" -> "M" [] c = "n" -> "N" [] c = "o" -> "O" [] c = "p" -> "P"
          [] c = "q" -> "Q" [] c = "r" -> "R" [] c = "s" -> "S" [] c = "t" -> "T"
          [] c = "u" -> "U" [] c = "v" -> "V" [] c = "w" -> "W" [] c = "x" -> "X"
          [] c = "y" -> "Y" [] c = "z" -> "Z"]

\* upper, with the conversion forgotten
upper_unchanged(text) == text

\* str.upper()
upper(text) ==
    [i \in DOMAIN text |-> IF text[i] \in DOMAIN UpperOf THEN UpperOf[text[i]] ELSE text[i]]

NO_CONTENT == <<"N", "O", " ", "C", "O", "N", "T", "E", "N", "T">>

-----------------------------------------------------------------------------
(* The bot under study and the values the integration passes in *)

\* EduBot(username, platform, personality)
self_username == <<"b", "o", "t">>
self_platform == "telegram"
self_personality == "helpful"

OtherBotName == <<"a", "u", "x">>
Alice == <<"a", "l">>
Usernames == {Alice, self_username, OtherBotName}
Platforms == {self_platform, "matrix"}
ThreadNames == {"T1", "T2"}
Times == 0..MaxTime

\* message texts typed by users
Texts == {<<"h", "i">>}
\* what the captioning service returns ("" on failure)
Captions == {<<>>, <<"c", "a", "t">>}
ImagePrefix == <<"*", "A", "n", " ", "i", "m", "a", "g", "e", " ", "o", "f", " ">>

\* the key "thread" is absent from a MessageInfo the integration builds
NoThread == 0

\* a MessageInfo dict; thread = NoThread when the dict has no "thread" key
MessageInfo(u, m, t) == [username |-> u, message |-> m, time |-> t, thread |-> NoThread]

\* the {username, message, time} of a MessageInfo or of a Message row
Tuple(x) == [username |-> x.username, message |-> x.message, time |-> x.time]

\* the {username, message, time} of each entry of a list
TuplesOf(list) == [i \in DOMAIN list |-> Tuple(list[i])]

IsAscending(w) == \A i \in 1..(Len(w) - 1) : w[i].time <= w[i + 1].time

-----------------------------------------------------------------------------
(* Store queries *)

Last(seq) == seq[Len(seq)]

\* the elements of a finite set, in every order (a SELECT without ORDER BY
\* returns its rows in an order the store chooses)
Orderings(S) ==
    {o \in [1..Cardinality(S) -> S] : \A i, j \in DOMAIN o : o[i] = o[j] => i = j}

\* get_bot, looking at this bot's own row only
get_bot_self_only(bs, username) ==
    {b \in DOMAIN bs : b = 1 /\ bs[b].username = username /\ bs[b].platform = self_platform}

\* __get_bot: the Bot rows of `username` on this platform
get_bot(bs, username) ==
    {b \in DOMAIN bs : bs[b].username = username /\ bs[b].platform = self_platform}

\* __get_thread: the Thread rows named `thread_name` on this platform
get_thread(ts, thread_name) ==
    {t \in DOMAIN ts : ts[t].thread_name = thread_name /\ ts[t].platform = self_platform}

\* get_message, with a lookup that finds nothing
get_message_none(ms, ts, msg_info) == {}

\* __get_message: select(Message) filtered on username, message and time, and
\* on Thread.platform with no join condition between Message and Thread: a
\* cross join, so a Message row of ANY thread matches as soon as some Thread
\* row of this platform exists
get_message(ms, ts, msg_info) ==
    {m \in DOMAIN ms :
        /\ ms[m].username = msg_info.username
        /\ ms[m].message = msg_info.message
        /\ ms[m].time = msg_info.time
        /\ \E t \in DOMAIN ts : ts[t].platform = self_platform}

\* the Thread table after "if not thread: session.add(Thread(...)); commit()"
with_thread(ts, thread_name) ==
    IF get_thread(ts, thread_name) = {}
    THEN Append(ts, [thread_name |-> thread_name, platform |-> self_platform])
    ELSE ts

\* thread.id after with_thread
thread_id(ts, thread_name) ==
    CHOOSE t \in get_thread(with_thread(ts, thread_name), thread_name) : TRUE

-----------------------------------------------------------------------------
(* gpt_answer: merge of the window with the stored context *)

\* row_as_msg_info of a Message row
row_as_msg_info(row) == MessageInfo(row.username, row.message, row.time)

\* "x in list": some element equals x (dict equality: same keys, same values)
InList(x, list) == \E i \in DOMAIN list : list[i] = x

\* list.remove(x): delete the first element equal to x
ListRemove(list, x) ==
    LET first == CHOOSE i \in DOMAIN list :
                     list[i] = x /\ \A j \in 1..(i - 1) : list[j] # x
    IN  SubSeq(list, 1, first - 1) \o SubSeq(list, first + 1, Len(list))

\* the ids the SELECT of gpt_answer returns: rows of the thread later than
\* the first window entry
later_rows(ms, tid, new_context) ==
    {m \in DOMAIN ms : ms[m].thread = tid /\ ms[m].time > new_context[1].time}

\* existing_context: the returned rows, in the order returned, that are not
\* in new_context
existing_context_of(ms, order, new_context) ==
    LET infos == [i \in DOMAIN order |-> row_as_msg_info(ms[order[i]])]
    IN  SelectSeq(infos, LAMBDA info : ~InList(info, new_context))

\* check, with the comparison against the current window entry forgotten
check_lower_only(extra_msg, index, new_context) ==
    index > 1 => extra_msg.time > new_context[index - 1].time

\* the condition `check` of the inner loop at window position index (1-based)
check(extra_msg, index, new_context) ==
    /\ extra_msg.time < new_context[index].time
    /\ (index > 1 => extra_msg.time > new_context[index - 1].time)

\* the inner loop "for extra_msg in existing_context": a list iterator at
\* position k over a list that the body shrinks; after a remove the iterator
\* still advances, so the element that slid into position k is not visited
RECURSIVE ScanPool(_, _, _, _, _)
ScanPool(pool, k, out, index, new_context) ==
    IF k > Len(pool) THEN [pool |-> pool, out |-> out]
    ELSE IF check(pool[k], index, new_context)
         THEN ScanPool(ListRemove(pool, pool[k]), k + 1, Append(out, pool[k]),
                       index, new_context)
         ELSE ScanPool(pool, k + 1, out, index, new_context)

\* the outer loop "for index, msg in enumerate(new_context)": complete_context
\* and, for each window entry, its position in complete_context
RECURSIVE MergeFrom(_, _, _, _, _)
MergeFrom(index, pool, out, at, new_context) ==
    IF index > Len(new_context) THEN [complete_context |-> out, at |-> at]
    ELSE LET s == ScanPool(pool, 1, out, index, new_context)
         IN  MergeFrom(index + 1, s.pool, Append(s.out, new_context[index]),
                       Append(at, Len(s.out) + 1), new_context)

Merge(existing_context, new_context) ==
    MergeFrom(1, existing_context, <<>>, <<>>, new_context)

\* is_new, with the "already in the database" lookup forgotten
is_new_unchecked(ms, ts, bs, msg) == get_bot(bs, msg.username) = {}

\* whether the loop body reaches session.add(Message(**row)) for msg: the
\* lookups run in sessions of their own and see committed rows only
is_new(ms, ts, bs, msg) ==
    /\ get_message(ms, ts, msg) = {}
    /\ get_bot(bs, msg.username) = {}

\* Message(**row) with row["thread"] = thread.id
message_row(msg, tid) ==
    [thread |-> tid, username |-> msg.username, message |-> msg.message, time |-> msg.time]

\* the rows session.commit() writes, in window order
added_rows(ms, ts, bs, tid, new_context) ==
    LET fresh == SelectSeq(new_context, LAMBDA msg : is_new(ms, ts, bs, msg))
    IN  [i \in DOMAIN fresh |-> message_row(fresh[i], tid)]

\* the caller's window after the call: row = msg aliases the window entry, so
\* row["thread"] = thread.id adds the key "thread" to the entry itself
window_after(ms, ts, bs, tid, new_context) ==
    [i \in DOMAIN new_context |->
        IF is_new(ms, ts, bs, new_context[i])
        THEN [new_context[i] EXCEPT !.thread = tid]
        ELSE new_context[i]]

\* completion.replace(f"{self.username}: ", "").lstrip()
strip_username(completion) ==
    lstrip(RemoveAll(completion, self_username \o <<":", " ">>))

-----------------------------------------------------------------------------
(* __format_context *)

\* one entry of gpt_context: the role and f"{msg['username']}: {msg['message']}"
format_entry(msg) ==
    [role |-> IF msg.username = self_username THEN "assistant" ELSE "user",
     content |-> msg.username \o <<":", " ">> \o msg.message]

\* the first loop: gpt_context, one entry per message, in order
format_entries(context) == [i \in DOMAIN context |-> format_entry(context[i])]

\* the first loop: token_count, the sum of the entries' estimates
RECURSIVE count_tokens(_)
count_tokens(gpt_context) ==
    IF gpt_context = <<>> THEN 0
    ELSE estimate_tokens(Head(gpt_context).content) + count_tokens(Tail(gpt_context))

\* "while token_count > MAX_GPT_TOKENS: token_count -= estimate_tokens(
\* gpt_context.pop(0)["content"])"; pop(0) of an empty list raises IndexError
RECURSIVE trim_loop(_, _)
trim_loop(gpt_context, token_count) ==
    IF token_count > MAX_GPT_TOKENS
    THEN IF gpt_context = <<>>
         THEN [raised |-> TRUE, gpt_context |-> gpt_context, token_count |-> token_count]
         ELSE trim_loop(Tail(gpt_context),
                        token_count - estimate_tokens(Head(gpt_context).content))
    ELSE [raised |-> FALSE, gpt_context |-> gpt_context, token_count |-> token_count]

\* the five system entries; the contents are kept as their fixed text and the
\* value formatted into it
system_messages ==
    << [role |-> "system", content |-> <<"You are a chatbot named ", self_username>>],
       [role |-> "system", content |-> <<"Your personality is: ", self_personality>>],
       [role |-> "system", content |-> <<"You should pretend you can view images.">>],
       [role |-> "system", content |-> <<"The current year is: ", "year">>],
       [role |-> "system", content |-> <<"You use the language model ", "gpt-4">>] >>

\* the value __format_context returns (it never raises: see trim_loop)
format_context(context) ==
    LET gpt_context == format_entries(context)
    IN  system_messages \o trim_loop(gpt_context, count_tokens(gpt_context)).gpt_context

-----------------------------------------------------------------------------
(* The public operations *)

\* self.__bot_pk: the id of this bot's row, written by __init__
bot_pk == 1

NoCall == [op |-> "none"]
Idle == [pc |-> "idle"]
NoCalls == <<>>

\* what openai.ChatCompletion.create does: fail, or return a text
LLMError == [ok |-> FALSE, content |-> <<>>]
LLMReturns(content) == [ok |-> TRUE, content |-> content]

\* EduBot.__init__ of another bot instance sharing the store: __add_bot_to_db
\* with that instance's username and platform
add_bot_to_db(username, platform) ==
    /\ \A b \in DOMAIN bots : ~(bots[b].username = username /\ bots[b].platform = platform)
    /\ bots' = Append(bots, [username |-> username, platform |-> platform])
    /\ last' = [op |-> "add_bot_to_db", username |-> username, platform |-> platform]
    /\ UNCHANGED <<keys, threads, messages, completions, fc, calls>>

\* on_llm_error, with the except clause forgotten: the error propagates
on_llm_error_raising(sofar) ==
    /\ last' = sofar @@ [outcome |-> "raised", error |-> "OpenAIError"]
    /\ UNCHANGED completions

\* lines 362-364: except OpenAIError logs and returns ""
on_llm_error(sofar) ==
    /\ last' = sofar @@ [outcome |-> "returned", result |-> <<>>]
    /\ UNCHANGED completions

\* gpt_answer(new_context, thread_name) with the language model doing `llm`
gpt_answer(new_context, thread_name, llm) ==
    LET call == [op |-> "gpt_answer", new_context |-> new_context,
                 thread_name |-> thread_name, llm_ok |-> llm.ok,
                 \* history: response["choices"][0]["message"]["content"]
                 content |-> llm.content,
                 \* history: the call before was gpt_answer for the same
                 \* window and thread, and its language-model call succeeded
                 repeats_ok |-> /\ last.op = "gpt_answer"
                                /\ last.llm_ok
                                /\ last.thread_name = thread_name
                                /\ TuplesOf(last.new_context) = TuplesOf(new_context)]
    IN
    IF ~keys.OPENAI_KEY
    THEN /\ last' = call @@ [outcome |-> "raised", error |-> "RuntimeError"]
         /\ UNCHANGED <<keys, store, fc, calls>>
    ELSE
    LET ts1 == with_thread(threads, thread_name)
        tid == thread_id(threads, thread_name)
        added == added_rows(messages, ts1, bots, tid, new_context)
        ms1 == messages \o added
        window == window_after(messages, ts1, bots, tid, new_context)
    IN  /\ threads' = ts1
        /\ messages' = ms1
        /\ \E order \in Orderings(later_rows(messages, tid, new_context)) :
             LET pool == existing_context_of(messages, order, new_context)
                 merged == Merge(pool, window)
                 sofar == call @@
                          [tid |-> tid, window |-> window, existing_context |-> pool,
                           complete_context |-> merged.complete_context,
                           at |-> merged.at, added |-> added,
                           gpt_context |-> format_context(merged.complete_context)]
                 completion == strip_username(llm.content)
                 reply_ids == get_message(ms1, ts1, Last(new_context))
             IN  \/ /\ ~llm.ok
                    /\ on_llm_error(sofar)
                 \/ /\ llm.ok
                    /\ reply_ids = {}
                    \* self.__get_message(reply_to) is None: None.id raises
                    /\ last' = sofar @@ [outcome |-> "raised", error |-> "AttributeError"]
                    /\ UNCHANGED completions
                 \/ /\ llm.ok
                    /\ \E msg_id \in reply_ids :
                         /\ completions' = Append(completions,
                                [bot |-> bot_pk, message |-> completion,
                                 reply_to |-> msg_id, score |-> 0])
                         /\ last' = sofar @@ [outcome |-> "returned", result |-> completion,
                                              reply_to |-> msg_id]
        /\ UNCHANGED <<keys, bots, fc, calls>>

\* too_large, with the size test forgotten
too_large_never(image) == FALSE

\* line 241: image_bytes.tell() / 1048576 > MAX_IMAGE_SIZE_MB
too_large(image) == image.bytes > MAX_IMAGE_SIZE_MB * 1048576

\* save_image_to_context(image, thread_name) with the captioning service
\* returning `output`; image = [username, time, bytes]
save_image_to_context(image, thread_name, output) ==
    LET call == [op |-> "save_image_to_context", image |-> image,
                 thread_name |-> thread_name, output |-> output]
    IN
    IF ~keys.REPLICATE_KEY
    THEN /\ last' = call @@ [outcome |-> "raised", error |-> "RuntimeError", called |-> FALSE]
         /\ UNCHANGED <<keys, store, fc, calls>>
    ELSE IF too_large(image)
    THEN /\ last' = call @@ [outcome |-> "returned", result |-> "None", called |-> FALSE]
         /\ UNCHANGED <<keys, store, fc, calls>>
    ELSE IF output = <<>>
    THEN /\ last' = call @@ [outcome |-> "returned", result |-> "None", called |-> TRUE]
         /\ UNCHANGED <<keys, store, fc, calls>>
    ELSE /\ threads' = with_thread(threads, thread_name)
         /\ messages' = Append(messages,
                [thread |-> thread_id(threads, thread_name), username |-> image.username,
                 message |-> ImagePrefix \o output, time |-> image.time])
         /\ last' = call @@ [outcome |-> "returned", result |-> output, called |-> TRUE]
         /\ UNCHANGED <<keys, bots, completions, fc, calls>>

\* matching_completions, with the WHERE on the thread name forgotten
matching_completions_any_thread(cs, ms, ts, bs, completion, thread_name) ==
    {c \in DOMAIN cs :
        /\ cs[c].bot \in DOMAIN bs
        /\ cs[c].reply_to \in DOMAIN ms
        /\ ms[cs[c].reply_to].thread \in DOMAIN ts
        /\ cs[c].message = completion.message
        /\ cs[c].bot = bot_pk
        /\ completion.time - LOOKBACK_SECONDS < ms[cs[c].reply_to].time
        /\ ms[cs[c].reply_to].time < completion.time}

\* the rows the SELECT of change_completion_score matches
matching_completions(cs, ms, ts, bs, completion, thread_name) ==
    {c \in DOMAIN cs :
        /\ cs[c].bot \in DOMAIN bs
        /\ cs[c].reply_to \in DOMAIN ms
        /\ ms[cs[c].reply_to].thread \in DOMAIN ts
        /\ cs[c].message = completion.message
        /\ ts[ms[cs[c].reply_to].thread].thread_name = thread_name
        /\ cs[c].bot = bot_pk
        /\ completion.time - LOOKBACK_SECONDS < ms[cs[c].reply_to].time
        /\ ms[cs[c].reply_to].time < completion.time}

\* order_by(desc(Completion.id)) ... fetchone()
newest(ids) == CHOOSE c \in ids : \A d \in ids : d <= c

\* change_completion_score(offset, completion, thread_name);
\* completion = [message, time]
change_completion_score(offset, completion, thread_name) ==
    LET call == [op |-> "change_completion_score", offset |-> offset,
                 completion |-> completion, thread_name |-> thread_name]
        ids == matching_completions(completions, messages, threads, bots,
                                    completion, thread_name)
    IN  IF ids = {}
        THEN /\ last' = call @@ [outcome |-> "returned", matched |-> 0]
             /\ UNCHANGED <<keys, store, fc, calls>>
        ELSE /\ completions' = [completions EXCEPT ![newest(ids)].score = @ + offset]
             /\ last' = call @@ [outcome |-> "returned", matched |-> newest(ids)]
             /\ UNCHANGED <<keys, bots, threads, messages, fc, calls>>

\* lines 489-490: cut 100 characters off the end until the estimate fits
RECURSIVE truncate(_)
truncate(text) ==
    IF estimate_tokens(text) > MAX_GPT_TOKENS
    THEN truncate(SubSeq(text, 1, Len(text) - 100))
    ELSE text

\* summarise_url(url, msg, thread_name) with trafilatura.fetch_url returning
\* `resp`, trafilatura.extract returning `text` and the language model doing
\* `llm`; resp = [ok, body] and text = [ok, text], ok = FALSE standing for None
summarise_url(resp, text, msg, thread_name, llm) ==
    LET call == [op |-> "summarise_url", resp |-> resp.ok, body_len |-> Len(resp.body),
                 extracted |-> text.ok, text_len |-> Len(text.text),
                 msg |-> msg, thread_name |-> thread_name,
                 llm_ok |-> llm.ok, content |-> llm.content,
                 \* line 475 runs before any test
                 fetched |-> TRUE]
        none == /\ last' = call @@ [outcome |-> "returned", result |-> "None"]
                /\ UNCHANGED <<keys, store, fc, calls>>
    IN
    IF ~resp.ok \/ resp.body = <<>> THEN none
    ELSE IF ~text.ok THEN none
    \* with openai.api_key unset the client raises AuthenticationError, an
    \* OpenAIError, which line 501 catches like any other
    ELSE IF ~keys.OPENAI_KEY \/ ~llm.ok THEN none
    ELSE IF Contains(upper(llm.content), NO_CONTENT) THEN none
    ELSE
    LET completion_text == strip(llm.content)
        ts1 == with_thread(threads, thread_name)
        tid == thread_id(threads, thread_name)
        ms1 == IF get_message(messages, ts1, msg) = {}
               THEN Append(messages, message_row(msg, tid))
               ELSE messages
    IN  /\ threads' = ts1
        /\ messages' = ms1
        /\ \E msg_id \in get_message(ms1, ts1, msg) :
              /\ completions' = Append(completions,
                     [bot |-> bot_pk, message |-> completion_text,
                      reply_to |-> msg_id, score |-> 0])
              /\ last' = call @@ [outcome |-> "returned", result |-> completion_text,
                                  sent_len |-> Len(truncate(text.text)),
                                  reply_to |-> msg_id]
        /\ UNCHANGED <<keys, bots, fc, calls>>

-----------------------------------------------------------------------------
(* The inputs the model draws *)

\* the windows of at most two entries, ascending by time, over the given values
WindowsOver(users, texts, times) ==
    LET entries == {MessageInfo(u, m, t) : u \in users, m \in texts, t \in times}
    IN  {<<e>> : e \in entries}
        \cup {w \in {<<e1, e2>> : e1 \in entries, e2 \in entries} : IsAscending(w)}

\* the window objects the integration may pass: a newly built window, or
\* the window object of the previous gpt_answer call again
HeldWindows ==
    IF last.op = "gpt_answer" /\ "window" \in DOMAIN last THEN {last.window} ELSE {}

Responses == {<<"o", "k">>, self_username \o <<":", " ", "o", "k">>}
LLMOutcomes == {LLMError} \cup {LLMReturns(r) : r \in Responses}

ImageBytes == {1048576, MAX_IMAGE_SIZE_MB * 1048576, MAX_IMAGE_SIZE_MB * 1048576 + 1}
Images(users, times) ==
    {[username |-> u, time |-> t, bytes |-> b] : u \in users, t \in times, b \in ImageBytes}

Offsets == {-1, 1}
FeedbackTimes == {t + d : t \in 0..StoreMaxTime, d \in {0, 1, LOOKBACK_SECONDS, LOOKBACK_SECONDS + 1}}
\* the events name a text the bot generated, or a text of a user
CompletionInfos ==
    {[message |-> m, time |-> t] :
        m \in {strip_username(r) : r \in Responses} \cup Texts, t \in FeedbackTimes}

-----------------------------------------------------------------------------
(* Spec: the operations on the shared store, called one after another *)

\* the bounds, as guards on the state an operation leaves
BoundedBy(max_messages) ==
    /\ Len(messages') <= max_messages
    /\ Len(completions') <= MaxCompletions
    /\ \A c \in DOMAIN completions' : completions'[c].score \in -MaxScore..MaxScore

\* three EduBot instances have been constructed on the shared store: this
\* bot, another bot of this platform, and a bot of another platform whose
\* username is a user's name on this platform
Init ==
    /\ keys = [OPENAI_KEY |-> TRUE, REPLICATE_KEY |-> TRUE]
    /\ bots = << [username |-> self_username, platform |-> self_platform],
                 [username |-> OtherBotName, platform |-> self_platform],
                 [username |-> Alice, platform |-> "matrix"] >>
    /\ threads = <<>>
    /\ messages = <<>>
    /\ completions = <<>>
    /\ last = NoCall
    /\ fc = Idle
    /\ calls = NoCalls

StoreTimes == 0..StoreMaxTime

\* the integration calls an operation when no call is being looked at
Respond ==
    /\ last = NoCall
    /\ \E w \in WindowsOver(Usernames, Texts, StoreTimes), t \in ThreadNames,
          llm \in LLMOutcomes :
           gpt_answer(w, t, llm) /\ BoundedBy(MaxMessages)

\* ... or calls gpt_answer again for the same thread, with the window of the
\* call before: newly built, or the same list object
RespondAgain ==
    /\ last.op = "gpt_answer"
    /\ \E w \in {last.new_context} \cup HeldWindows, llm \in LLMOutcomes :
           gpt_answer(w, last.thread_name, llm) /\ BoundedBy(MaxMessages)

SaveImage ==
    /\ last = NoCall
    /\ \E image \in Images({Alice}, StoreTimes), t \in ThreadNames, output \in Captions :
           save_image_to_context(image, t, output) /\ BoundedBy(MaxMessages)

Feedback ==
    /\ last = NoCall
    /\ \E offset \in Offsets, c \in CompletionInfos, t \in ThreadNames :
           change_completion_score(offset, c, t) /\ BoundedBy(MaxMessages)

\* the integration is done with the result of the call
Return ==
    /\ last # NoCall
    /\ last' = NoCall
    /\ UNCHANGED <<keys, store, fc, calls>>

Next == Respond \/ RespondAgain \/ SaveImage \/ Return

Spec == Init /\ [][Next]_vars

-----------------------------------------------------------------------------
(* SpecFeedback: responses and the feedback on them *)

\* the windows are those of one user
FeedbackRespond ==
    /\ last = NoCall
    /\ \E w \in WindowsOver({Alice}, Texts, StoreTimes), t \in ThreadNames,
          llm \in LLMOutcomes :
           gpt_answer(w, t, llm) /\ BoundedBy(MaxMessages)

\* a user reacts to the text gpt_answer has just returned, in its thread
FeedbackOnResponse ==
    /\ last.op = "gpt_answer"
    /\ last.outcome = "returned"
    /\ last.result # <<>>
    /\ \E offset \in Offsets, t \in FeedbackTimes :
           /\ change_completion_score(offset, [message |-> last.result, time |-> t],
                                      last.thread_name)
           /\ BoundedBy(MaxMessages)

NextFeedback ==
    FeedbackRespond \/ RespondAgain \/ Feedback \/ FeedbackOnResponse \/ Return

SpecFeedback == Init /\ [][NextFeedback]_vars

-----------------------------------------------------------------------------
(* SpecMerge: the merge of gpt_answer over one thread that holds image      *)
(* captions; the merge precedes the language-model call and does not depend *)
(* on its outcome                                                           *)

MergeThread == "T1"

MergeSaveImage ==
    /\ last = NoCall
    /\ \E t \in Times :
           /\ save_image_to_context([username |-> Alice, time |-> t, bytes |-> 1048576],
                                    MergeThread, <<"c", "a", "t">>)
           /\ BoundedBy(MaxPoolMessages)

MergeRespond ==
    /\ last = NoCall
    /\ \E w \in WindowsOver({Alice, self_username}, Texts, Times) :
           gpt_answer(w, MergeThread, LLMError) /\ BoundedBy(MaxPoolMessages)

MergeRespondAgain ==
    /\ last.op = "gpt_answer"
    /\ \E w \in {last.new_context} \cup HeldWindows :
           gpt_answer(w, MergeThread, LLMError) /\ BoundedBy(MaxPoolMessages)

NextMerge == MergeSaveImage \/ MergeRespond \/ MergeRespondAgain \/ Return

SpecMerge == Init /\ [][NextMerge]_vars

\* SpecCaptions: the same, with every window newly built and listing each
\* message once
CaptionsRespond ==
    /\ last = NoCall
    /\ \E w \in {v \in WindowsOver({Alice, self_username}, Texts, Times) :
                    \A i, j \in DOMAIN v : i # j => v[i] # v[j]} :
           gpt_answer(w, MergeThread, LLMError) /\ BoundedBy(MaxPoolMessages)

NextCaptions == MergeSaveImage \/ CaptionsRespond \/ Return

SpecCaptions == Init /\ [][NextCaptions]_vars

-----------------------------------------------------------------------------
(* SpecTrim: __format_context alone, statement by statement, on contexts     *)
(* whose estimates reach MAX_GPT_TOKENS                                      *)

\* texts whose entry "al: <text>" is estimated at `cost` tokens (cost >= 2):
\* 8*cost - 10 letters give len = 8*cost - 6 and 2 parts, the estimate is
\* round(8*cost/8); 2*cost - 3 spaces give len = 2*cost + 1 and 2*cost - 1
\* parts, the estimate is round((8*cost - 2)/8)
LettersCosting(cost) == Rep("x", 8 * cost - 10)
SpacesCosting(cost) == Rep(" ", 2 * cost - 3)

TrimTexts ==
    {<<"h", "i">>, LettersCosting(MAX_GPT_TOKENS \div 2), SpacesCosting(MAX_GPT_TOKENS),
     LettersCosting(MAX_GPT_TOKENS + 1)}

RECURSIVE SeqsUpTo(_, _)
SeqsUpTo(S, n) ==
    IF n = 0 THEN {<<>>}
    ELSE LET shorter == SeqsUpTo(S, n - 1)
         IN  shorter \cup {Append(q, x) : q \in {r \in shorter : Len(r) = n - 1}, x \in S}

TrimContexts == SeqsUpTo({MessageInfo(Alice, m, 0) : m \in TrimTexts}, MaxContext)

InitTrim ==
    /\ keys = [OPENAI_KEY |-> TRUE, REPLICATE_KEY |-> TRUE]
    /\ bots = <<[username |-> self_username, platform |-> self_platform]>>
    /\ threads = <<>>
    /\ messages = <<>>
    /\ completions = <<>>
    /\ last = NoCall
    /\ calls = NoCalls
    /\ \E context \in TrimContexts : fc = [pc |-> "build", context |-> context]

\* lines 182-195: gpt_context and token_count
FormatBuild ==
    /\ fc.pc = "build"
    /\ fc' = [pc |-> "while", context |-> fc.context,
              gpt_context |-> format_entries(fc.context),
              token_count |-> count_tokens(format_entries(fc.context))]
    /\ UNCHANGED <<keys, store, last, calls>>

\* FormatPop, with the subtraction forgotten: token_count keeps its value
FormatPopUncounted ==
    /\ fc.pc = "while"
    /\ fc.token_count > MAX_GPT_TOKENS
    /\ IF fc.gpt_context = <<>>
       THEN fc' = [fc EXCEPT !.pc = "IndexError"]
       ELSE fc' = [fc EXCEPT !.gpt_context = Tail(@)]
    /\ UNCHANGED <<keys, store, last, calls>>

\* FormatPop, with pop() for pop(0): the newest entry is dropped
FormatPopNewest ==
    /\ fc.pc = "while"
    /\ fc.token_count > MAX_GPT_TOKENS
    /\ IF fc.gpt_context = <<>>
       THEN fc' = [fc EXCEPT !.pc = "IndexError"]
       ELSE fc' = [fc EXCEPT !.gpt_context = SubSeq(@, 1, Len(@) - 1),
                             !.token_count = @ - estimate_tokens(Last(fc.gpt_context).content)]
    /\ UNCHANGED <<keys, store, last, calls>>

\* lines 197-198: one pass of the while loop
FormatPop ==
    /\ fc.pc = "while"
    /\ fc.token_count > MAX_GPT_TOKENS
    /\ IF fc.gpt_context = <<>>
       THEN fc' = [fc EXCEPT !.pc = "IndexError"]
       ELSE fc' = [fc EXCEPT !.gpt_context = Tail(@),
                             !.token_count = @ - estimate_tokens(Head(fc.gpt_context).content)]
    /\ UNCHANGED <<keys, store, last, calls>>

\* lines 200-222: the loop condition is false; return
FormatReturn ==
    /\ fc.pc = "while"
    /\ fc.token_count <= MAX_GPT_TOKENS
    /\ fc' = [fc EXCEPT !.pc = "return"] @@ [result |-> system_messages \o fc.gpt_context]
    /\ UNCHANGED <<keys, store, last, calls>>

NextTrim == FormatBuild \/ FormatPop \/ FormatReturn

SpecTrim == InitTrim /\ [][NextTrim]_vars

\* a call that has reached the while loop runs on: nothing in the loop, or
\* after it, waits for anything
SpecTrimFair == SpecTrim /\ WF_vars(FormatPop) /\ WF_vars(FormatReturn)

-----------------------------------------------------------------------------
(* SpecSummary: summaries of web pages, in a store that gpt_answer fills *)

\* what trafilatura.fetch_url returns: None, "", or a page
Responses_fetch ==
    {[ok |-> FALSE, body |-> <<>>], [ok |-> TRUE, body |-> <<>>],
     [ok |-> TRUE, body |-> <<"<", "p", ">">>]}

\* what trafilatura.extract returns: None, or the text of the page
Extracts ==
    {[ok |-> FALSE, text |-> <<>>], [ok |-> TRUE, text |-> <<"h", "i">>]}

\* what the language model returns for a page
Summaries ==
    {<<" ", "o", "k", " ">>, NO_CONTENT,
     <<"n", "o", " ", "c", "o", "n", "t", "e", "n", "t">>,
     <<"o", "k", " ", "N", "o", " ", "C", "o", "n", "t", "e", "n", "t", ".">>}

Summarise ==
    /\ last = NoCall
    /\ \E resp \in Responses_fetch, text \in Extracts,
          msg \in {MessageInfo(u, m, t) : u \in {Alice, self_username}, m \in Texts,
                                          t \in StoreTimes},
          t \in ThreadNames,
          llm \in {LLMError} \cup {LLMReturns(r) : r \in Summaries} :
           summarise_url(resp, text, msg, t, llm) /\ BoundedBy(MaxMessages)

NextSummary == FeedbackRespond \/ Summarise \/ Return

SpecSummary == Init /\ [][NextSummary]_vars

-----------------------------------------------------------------------------
(* SpecCredentials: the operations of a deployment that has, or has not,   *)
(* each of the two keys                                                     *)

InitCredentials ==
    /\ keys \in [{"OPENAI_KEY", "REPLICATE_KEY"} -> BOOLEAN]
    /\ bots = << [username |-> self_username, platform |-> self_platform],
                 [username |-> OtherBotName, platform |-> self_platform],
                 [username |-> Alice, platform |-> "matrix"] >>
    /\ threads = <<>>
    /\ messages = <<>>
    /\ completions = <<>>
    /\ last = NoCall
    /\ fc = Idle
    /\ calls = NoCalls

NextCredentials == FeedbackRespond \/ SaveImage \/ Summarise \/ Return

SpecCredentials == InitCredentials /\ [][NextCredentials]_vars

-----------------------------------------------------------------------------
(* SpecConcurrent: gpt_answer called by two callers at the same time on the *)
(* shared store.  Nothing is locked across a call: each lookup and each     *)
(* commit is a transaction of its own, and a step below is one of them with *)
(* the code that runs up to the next one.                                   *)

Callers == {1, 2}

\* a caller's windows: newly built, each message listed once
ConcurrentWindows ==
    {w \in WindowsOver({Alice}, Texts, StoreTimes) :
        \A i, j \in DOMAIN w : i # j => w[i] # w[j]}

InitConcurrent ==
    /\ keys = [OPENAI_KEY |-> TRUE, REPLICATE_KEY |-> TRUE]
    /\ bots = << [username |-> self_username, platform |-> self_platform],
                 [username |-> OtherBotName, platform |-> self_platform],
                 [username |-> Alice, platform |-> "matrix"] >>
    /\ threads = <<>>
    /\ messages = <<>>
    /\ completions = <<>>
    /\ last = NoCall
    /\ fc = Idle
    /\ calls = [p \in Callers |-> Idle]

\* lines 289-295: the key test and self.__get_thread(thread_name)
CallBegin(p) ==
    /\ calls[p].pc = "idle"
    /\ \E w \in ConcurrentWindows, t \in {MergeThread} :
          calls' = [calls EXCEPT ![p] =
              IF ~keys.OPENAI_KEY
              THEN [pc |-> "raised", error |-> "RuntimeError"]
              ELSE [pc |-> IF get_thread(threads, t) = {} THEN "create_thread" ELSE "select",
                    new_context |-> w, thread_name |-> t,
                    tid |-> IF get_thread(threads, t) = {} THEN NoThread
                            ELSE CHOOSE x \in get_thread(threads, t) : TRUE]]
    /\ UNCHANGED <<keys, store, last, fc>>

\* lines 297-301: the thread was not found: add it and commit
CallCreateThread(p) ==
    /\ calls[p].pc = "create_thread"
    /\ threads' = Append(threads, [thread_name |-> calls[p].thread_name,
                                   platform |-> self_platform])
    /\ calls' = [calls EXCEPT ![p].pc = "select", ![p].tid = Len(threads) + 1]
    /\ UNCHANGED <<keys, bots, messages, completions, last, fc>>

\* lines 305-318: read the later rows of the thread
CallSelect(p) ==
    /\ calls[p].pc = "select"
    /\ \E order \in Orderings(later_rows(messages, calls[p].tid, calls[p].new_context)) :
          calls' = [calls EXCEPT ![p] =
              [pc |-> "loop", new_context |-> calls[p].new_context,
               thread_name |-> calls[p].thread_name, tid |-> calls[p].tid,
               existing_context |->
                   existing_context_of(messages, order, calls[p].new_context),
               complete_context |-> <<>>, index |-> 1,
               \* the rows added to the session, and for each the number of
               \* Message rows the store held when its lookup ran
               pending |-> <<>>, seen |-> <<>>]]
    /\ UNCHANGED <<keys, store, last, fc>>

\* lines 323-349: one pass of the loop over the window, with its lookups
CallLoop(p) ==
    /\ calls[p].pc = "loop"
    /\ LET f == calls[p]
           msg == f.new_context[f.index]
           s == ScanPool(f.existing_context, 1, f.complete_context, f.index, f.new_context)
           fresh == is_new(messages, threads, bots, msg)
       IN  calls' = [calls EXCEPT ![p] =
              [f EXCEPT !.existing_context = s.pool,
                        !.complete_context =
                            Append(s.out, IF fresh THEN [msg EXCEPT !.thread = f.tid]
                                          ELSE msg),
                        !.index = @ + 1,
                        !.pending = IF fresh THEN Append(@, message_row(msg, f.tid)) ELSE @,
                        !.seen = IF fresh THEN Append(@, Len(messages)) ELSE @,
                        !.pc = IF f.index = Len(f.new_context) THEN "commit" ELSE "loop"]]
    /\ UNCHANGED <<keys, store, last, fc>>

\* line 351: session.commit()
CallCommit(p) ==
    /\ calls[p].pc = "commit"
    /\ messages' = messages \o calls[p].pending
    /\ Len(messages') <= MaxMessages
    /\ calls' = [calls EXCEPT ![p].pc = "llm"]
    /\ UNCHANGED <<keys, bots, threads, completions, last, fc>>

\* lines 353-375: the language-model call and __add_completion
CallFinish(p) ==
    /\ calls[p].pc = "llm"
    /\ \E llm \in LLMOutcomes :
          LET reply_ids == get_message(messages, threads, Last(calls[p].new_context))
              completion == strip_username(llm.content)
          IN  \/ /\ ~llm.ok
                 /\ calls' = [calls EXCEPT ![p] = [pc |-> "done", result |-> <<>>]]
                 /\ UNCHANGED completions
              \/ /\ llm.ok
                 /\ reply_ids = {}
                 /\ calls' = [calls EXCEPT ![p] =
                                 [pc |-> "raised", error |-> "AttributeError"]]
                 /\ UNCHANGED completions
              \/ /\ llm.ok
                 /\ \E msg_id \in reply_ids :
                       completions' = Append(completions,
                           [bot |-> bot_pk, message |-> completion,
                            reply_to |-> msg_id, score |-> 0])
                 /\ Len(completions') <= MaxCompletions
                 /\ calls' = [calls EXCEPT ![p] = [pc |-> "done", result |-> completion]]
    /\ UNCHANGED <<keys, bots, threads, messages, last, fc>>

\* the caller has the result, or the exception
CallEnd(p) ==
    /\ calls[p].pc \in {"done", "raised"}
    /\ calls' = [calls EXCEPT ![p] = Idle]
    /\ UNCHANGED <<keys, store, last, fc>>

NextConcurrent ==
    \E p \in Callers :
        \/ CallBegin(p) \/ CallCreateThread(p) \/ CallSelect(p)
        \/ CallLoop(p) \/ CallCommit(p) \/ CallFinish(p) \/ CallEnd(p)

SpecConcurrent == InitConcurrent /\ [][NextConcurrent]_vars

-----------------------------------------------------------------------------
(* SpecEcho: responses whose text names the bot, at the start or later *)

\* what the language model may generate: a text without the bot's name, a
\* text that opens with "<bot username>: ", and texts that hold
\* "<bot username>: " after their first character
EchoResponses ==
    { <<"o", "k">>,
      self_username \o <<":", " ", "o", "k">>,
      <<"o", "k", " ">> \o self_username \o <<":", " ", "o", "k">>,
      self_username \o <<":", " ">> \o self_username \o <<":", " ", "o", "k">> }
EchoOutcomes == {LLMError} \cup {LLMReturns(r) : r \in EchoResponses}

EchoRespond ==
    /\ last = NoCall
    /\ \E w \in WindowsOver({Alice}, Texts, StoreTimes), t \in ThreadNames,
          llm \in EchoOutcomes :
           gpt_answer(w, t, llm) /\ BoundedBy(MaxMessages)

NextEcho == EchoRespond \/ Return

SpecEcho == Init /\ [][NextEcho]_vars

-----------------------------------------------------------------------------
(* Vocabulary of the properties *)

\* the last call was a gpt_answer call that ran its merge-and-persist step
Merged == last.op = "gpt_answer" /\ "complete_context" \in DOMAIN last

\* the ids of the Message rows the store held before the last gpt_answer call
PriorRows == 1..(Len(messages) - Len(last.added))

\* the usernames of the Bot rows of this platform
BotNames == {bots[b].username : b \in {x \in DOMAIN bots : bots[x].platform = self_platform}}

\* x has the {username, text, timestamp} of an entry of the list
TupleIn(x, list) == \E i \in DOMAIN list : Tuple(list[i]) = Tuple(x)

\* no two Message rows of one thread have the same {username, text, timestamp}
NoDuplicateRows(ms) ==
    \A m, n \in DOMAIN ms :
        (m # n /\ ms[m].thread = ms[n].thread) => Tuple(ms[m]) # Tuple(ms[n])

\* the rows of the last call's thread, before the call, that the merge has to
\* place: later than the first window entry and not a window entry
ExtraRows ==
    {m \in PriorRows :
        /\ messages[m].thread = last.tid
        /\ messages[m].time > last.new_context[1].time
        /\ ~TupleIn(messages[m], last.new_context)}

PairwiseDistinct(list) ==
    \A i, j \in DOMAIN list : i # j => Tuple(list[i]) # Tuple(list[j])

-----------------------------------------------------------------------------
(* The merge of gpt_answer (checked under SpecMerge) *)

\* C3: every stored message of the thread that is not a window entry and
\* whose timestamp lies strictly between two consecutive window entries is in
\* the merged output exactly once, between those two entries: the merged
\* output holds its {username, text, timestamp} once for each such row, and
\* only between the two entries.
C3_GapEntriesPlacedOnce ==
    Merged =>
        \A m \in PriorRows, i \in 2..Len(last.new_context) :
            ( /\ messages[m].thread = last.tid
              /\ ~TupleIn(messages[m], last.new_context)
              /\ last.new_context[i - 1].time < messages[m].time
              /\ messages[m].time < last.new_context[i].time )
            => LET places == {p \in DOMAIN last.complete_context :
                                 Tuple(last.complete_context[p]) = Tuple(messages[m])}
                   rows == {n \in PriorRows :
                                 /\ messages[n].thread = last.tid
                                 /\ Tuple(messages[n]) = Tuple(messages[m])}
               IN  /\ Cardinality(places) = Cardinality(rows)
                   /\ \A p \in places : last.at[i - 1] < p /\ p < last.at[i]

\* C4: the merged output is in chronological order: its timestamps never
\* decrease.
C4_MergedChronological ==
    Merged =>
        \A p, q \in DOMAIN last.complete_context :
            p < q => last.complete_context[p].time <= last.complete_context[q].time

\* C5: a stored message of the thread later than the last window entry (and
\* not a window entry) is not in the merged output; and when the thread
\* holds no message to place (none later than the first window entry that is
\* not a window entry), the merged output is the window, in its order.
C5_LaterDroppedAndNoExtraIsWindow ==
    Merged =>
        /\ \A m \in PriorRows :
              ( /\ messages[m].thread = last.tid
                /\ messages[m].time > Last(last.new_context).time
                /\ ~TupleIn(messages[m], last.new_context) )
              => ~TupleIn(messages[m], last.complete_context)
        /\ ExtraRows = {} =>
              TuplesOf(last.complete_context) = TuplesOf(last.new_context)

\* C5 happens: a merge ran over a window of two entries while the thread held
\* a message, not a window entry, later than the last window entry
C5_Witness ==
    /\ Merged
    /\ Len(last.new_context) = 2
    /\ \E m \in PriorRows :
          /\ messages[m].thread = last.tid
          /\ messages[m].time > Last(last.new_context).time
          /\ ~TupleIn(messages[m], last.new_context)

\* C6: for a window of pairwise distinct entries, no two entries of the
\* merged output have the same {username, text, timestamp}.
C6_MergedHasNoDuplicates ==
    (Merged /\ PairwiseDistinct(last.new_context)) =>
        PairwiseDistinct(last.complete_context)

-----------------------------------------------------------------------------
(* Persisting the window (checked under Spec) *)

\* C1: a gpt_answer call that directly follows a gpt_answer call with the
\* same window and thread, the language model succeeding both times, leaves
\* the Message, Thread and Bot tables as they are; the only row it may add is
\* one Completion, which it does add when it returns.
C1_SecondCallAddsNoMessage ==
    [][ ( /\ last.op = "gpt_answer" /\ last.llm_ok
          /\ last'.op = "gpt_answer" /\ last'.llm_ok
          /\ last'.thread_name = last.thread_name
          /\ TuplesOf(last'.new_context) = TuplesOf(last.new_context) )
        => /\ messages' = messages
           /\ threads' = threads
           /\ bots' = bots
           /\ Len(completions') <= Len(completions) + 1
           /\ SubSeq(completions', 1, Len(completions)) = completions
           /\ last'.outcome = "returned" =>
                 /\ Len(completions') = Len(completions) + 1
                 /\ Last(completions').message = last'.result ]_vars

\* C1 happens: the second of two such calls returned, for a window with an
\* entry of a user (stored by an earlier call), and the store holds two
\* Completion rows
C1_Witness ==
    /\ Merged
    /\ last.repeats_ok /\ last.llm_ok /\ last.outcome = "returned"
    /\ \E i \in DOMAIN last.new_context :
          /\ last.new_context[i].username \notin BotNames
          /\ \E m \in DOMAIN messages : Tuple(messages[m]) = Tuple(last.new_context[i])
    /\ Len(completions) >= 2

\* C2: a gpt_answer call on a store in which no thread holds two Message rows
\* with the same {username, text, timestamp} leaves such a store.
C2_RespondKeepsRowsUnique ==
    [][ (NoDuplicateRows(messages) /\ last'.op = "gpt_answer")
        => NoDuplicateRows(messages') ]_vars

\* C7: after the merge-and-persist step of gpt_answer, every window entry
\* whose author is not a Bot of this platform has a Message row with its
\* {username, text, timestamp} in the thread of the call.
C7_WindowEntriesStoredInThread ==
    Merged =>
        \A i \in DOMAIN last.new_context :
            last.new_context[i].username \notin BotNames
            => \E m \in DOMAIN messages :
                  /\ messages[m].thread = last.tid
                  /\ Tuple(messages[m]) = Tuple(last.new_context[i])

\* C8: the Message rows a gpt_answer call adds are never authored by a Bot of
\* this platform, and the window entries authored by such a Bot are in the
\* merged context all the same.
C8_BotEntriesNotStored ==
    [][ last'.op = "gpt_answer"
        => /\ SubSeq(messages', 1, Len(messages)) = messages
           /\ \A m \in (Len(messages) + 1)..Len(messages') :
                 messages'[m].username \notin BotNames
           /\ "complete_context" \in DOMAIN last' =>
                 \A i \in DOMAIN last'.new_context :
                     last'.new_context[i].username \in BotNames
                     => TupleIn(last'.new_context[i], last'.complete_context) ]_vars

\* C8 happens: the window of the last call had an entry of this bot and an
\* entry of the other bot, neither of which is stored
C8_Witness ==
    /\ Merged
    /\ \E i, j \in DOMAIN last.new_context :
          /\ last.new_context[i].username = self_username
          /\ last.new_context[j].username = OtherBotName
          /\ ~TupleIn(last.new_context[i], messages)
          /\ ~TupleIn(last.new_context[j], messages)

-----------------------------------------------------------------------------
(* The token budget of __format_context (checked under SpecTrim) *)

\* the total estimated cost of the entries from position k + 1 on
SuffixCost(entries, k) == count_tokens(SubSeq(entries, k + 1, Len(entries)))

\* C9: what __format_context returns is the five system entries followed by
\* the longest suffix of the formatted context whose total estimated cost is
\* at most MAX_GPT_TOKENS; a context within the budget is returned whole.
C9_LongestSuffixWithinBudget ==
    fc.pc = "return" =>
        LET entries == format_entries(fc.context)
            kept == SubSeq(fc.result, Len(system_messages) + 1, Len(fc.result))
            dropped == Len(entries) - Len(kept)
        IN  /\ SubSeq(fc.result, 1, Len(system_messages)) = system_messages
            /\ dropped \in 0..Len(entries)
            /\ kept = SubSeq(entries, dropped + 1, Len(entries))
            /\ SuffixCost(entries, dropped) <= MAX_GPT_TOKENS
            /\ \A k \in 0..(dropped - 1) : SuffixCost(entries, k) > MAX_GPT_TOKENS
            /\ SuffixCost(entries, 0) <= MAX_GPT_TOKENS => kept = entries

\* C9 happens: a context over the budget came back with its oldest entry
\* dropped and its newest entry kept
C9_Witness ==
    /\ fc.pc = "return"
    /\ Len(fc.context) >= 2
    /\ Len(fc.result) > Len(system_messages)
    /\ Len(fc.result) < Len(system_messages) + Len(fc.context)

\* the stepwise run returns what the operator format_context computes
FormatContextAgrees ==
    fc.pc = "return" => fc.result = format_context(fc.context)

-----------------------------------------------------------------------------
(* The feedback correlation (checked under SpecFeedback) *)

\* C10: change_completion_score matches a Completion exactly when some
\* Completion of this bot with the given text replies to a Message of the
\* given thread whose time m satisfies ts - 90s <= m < ts.
C10_LookbackHalfOpen ==
    last.op = "change_completion_score" =>
        ( last.matched # 0
          <=> \E c \in DOMAIN completions :
                 /\ bots[completions[c].bot].username = self_username
                 /\ bots[completions[c].bot].platform = self_platform
                 /\ completions[c].message = last.completion.message
                 /\ threads[messages[completions[c].reply_to].thread].thread_name
                        = last.thread_name
                 /\ last.completion.time - LOOKBACK_SECONDS
                        <= messages[completions[c].reply_to].time
                 /\ messages[completions[c].reply_to].time < last.completion.time )

\* the Completion rows that correlate with a feedback event on `completion`
\* in the thread named thread_name: rows of this bot with the event's text
\* whose reply-to Message is in that thread, with a time m in the lookback
\* window ts - 90s <= m < ts
Correlated(completion, thread_name) ==
    {c \in DOMAIN completions :
        /\ bots[completions[c].bot].username = self_username
        /\ bots[completions[c].bot].platform = self_platform
        /\ completions[c].message = completion.message
        /\ threads[messages[completions[c].reply_to].thread].thread_name = thread_name
        /\ completion.time - LOOKBACK_SECONDS <= messages[completions[c].reply_to].time
        /\ messages[completions[c].reply_to].time < completion.time}

\* C11: when several Completion rows correlate with a feedback event,
\* change_completion_score adds the offset to the score of the one with the
\* largest id and changes nothing else: no other Completion, and no Message,
\* Thread or Bot row.
C11_NewestMatchScoredOnly ==
    [][ ( /\ last'.op = "change_completion_score"
          /\ Cardinality(Correlated(last'.completion, last'.thread_name)) >= 2 )
        => LET ids == Correlated(last'.completion, last'.thread_name)
               top == CHOOSE c \in ids : \A d \in ids : d <= c
           IN  /\ completions' = [completions EXCEPT ![top].score = @ + last'.offset]
               /\ messages' = messages
               /\ threads' = threads
               /\ bots' = bots ]_vars

\* what does hold of the rows the SELECT itself matches: the newest of them
\* is the one scored, and nothing else changes
NewestSelectedScoredOnly ==
    [][ last'.op = "change_completion_score"
        => LET ids == matching_completions(completions, messages, threads, bots,
                                           last'.completion, last'.thread_name)
           IN  /\ messages' = messages /\ threads' = threads /\ bots' = bots
               /\ ids = {} => completions' = completions
               /\ ids # {} =>
                     /\ last'.matched \in ids
                     /\ \A d \in ids : d <= last'.matched
                     /\ completions' = [completions EXCEPT
                                           ![last'.matched].score = @ + last'.offset] ]_vars

\* C12: when no Completion row correlates with a feedback event,
\* change_completion_score returns without raising and leaves the whole
\* store as it is.
C12_NoMatchChangesNothing ==
    [][ ( /\ last'.op = "change_completion_score"
          /\ Correlated(last'.completion, last'.thread_name) = {} )
        => /\ last'.outcome = "returned"
           /\ last'.matched = 0
           /\ completions' = completions
           /\ messages' = messages
           /\ threads' = threads
           /\ bots' = bots ]_vars

\* C12 happens: a feedback event on a text the bot never generated left the
\* store alone, while the store held a Completion that an event with that
\* Completion's text, at the same time in the same thread, correlates with
C12_Witness ==
    /\ last.op = "change_completion_score"
    /\ last.outcome = "returned"
    /\ Correlated(last.completion, last.thread_name) = {}
    /\ \E c \in DOMAIN completions :
          /\ completions[c].message # last.completion.message
          /\ c \in Correlated([last.completion EXCEPT !.message = completions[c].message],
                              last.thread_name)

\* C13: a feedback event on the text r that gpt_answer(W, T) has returned,
\* in thread T and at a time ts with W[-1].time < ts < W[-1].time + 90s, adds
\* its offset to the score of a Completion with text r.
C13_FeedbackOnResponseScores ==
    [][ ( /\ last.op = "gpt_answer"
          /\ last.outcome = "returned"
          /\ last.result # <<>>
          /\ last'.op = "change_completion_score"
          /\ last'.completion.message = last.result
          /\ last'.thread_name = last.thread_name
          /\ Last(last.new_context).time < last'.completion.time
          /\ last'.completion.time < Last(last.new_context).time + LOOKBACK_SECONDS )
        => \E c \in DOMAIN completions :
              /\ completions[c].message = last.result
              /\ completions'[c].score = completions[c].score + last'.offset ]_vars

-----------------------------------------------------------------------------
(* The Completion of gpt_answer (checked under Spec) *)

\* C14: a gpt_answer call whose language-model call succeeds returns the
\* text and adds exactly one Completion, of this bot, whose reply_to is the
\* id of a Message row of the thread of the call with the {username, text,
\* timestamp} of the last window entry.
C14_CompletionRepliesToLastEntry ==
    [][ ( /\ last'.op = "gpt_answer"
          /\ keys.OPENAI_KEY
          /\ last'.llm_ok )
        => /\ last'.outcome = "returned"
           /\ Len(completions') = Len(completions) + 1
           /\ SubSeq(completions', 1, Len(completions)) = completions
           /\ Last(completions').message = last'.result
           /\ bots[Last(completions').bot].username = self_username
           /\ bots[Last(completions').bot].platform = self_platform
           /\ Last(completions').reply_to \in DOMAIN messages'
           /\ messages'[Last(completions').reply_to].thread = last'.tid
           /\ Tuple(messages'[Last(completions').reply_to])
                 = Tuple(Last(last'.new_context)) ]_vars

\* C15: a gpt_answer call whose language-model call fails returns an empty
\* result without raising and adds no Completion; the Message rows its merge
\* step committed before the call are in the store.
C15_LLMFailureReturnsEmpty ==
    [][ ( /\ last'.op = "gpt_answer"
          /\ keys.OPENAI_KEY
          /\ ~last'.llm_ok )
        => /\ last'.outcome = "returned"
           /\ last'.result = <<>>
           /\ completions' = completions
           /\ SubSeq(messages', 1, Len(messages)) = messages
           /\ \A i \in DOMAIN last'.new_context :
                 last'.new_context[i].username \notin BotNames
                 => TupleIn(last'.new_context[i], messages') ]_vars

\* C15 happens: the language-model call of the last gpt_answer call failed
\* after the call had added a Message row, which the store holds
C15_Witness ==
    /\ Merged
    /\ ~last.llm_ok
    /\ last.outcome = "returned"
    /\ last.added # <<>>
    /\ SubSeq(messages, Len(messages) - Len(last.added) + 1, Len(messages)) = last.added

-----------------------------------------------------------------------------
(* save_image_to_context (checked under Spec) *)

\* C16: save_image_to_context returns None and leaves the store as it is
\* when the image is larger than MAX_IMAGE_SIZE_MB megabytes, without calling
\* the captioning service, and when the service returns an empty caption;
\* otherwise it returns the caption and its one write of a row is a Message
\* "*An image of {caption}" with the image's username and time, in the thread
\* of the call (which it creates when the store does not have it).
C16_CaptionStoredOnlyWhenNonEmpty ==
    [][ ( /\ last'.op = "save_image_to_context"
          /\ keys.REPLICATE_KEY )
        => LET over == last'.image.bytes > MAX_IMAGE_SIZE_MB * 1048576
               empty == last'.output = <<>>
           IN  /\ last'.outcome = "returned"
               /\ over => ~last'.called
               /\ (over \/ empty) =>
                     /\ last'.result = "None"
                     /\ messages' = messages /\ threads' = threads
                     /\ completions' = completions /\ bots' = bots
               /\ ~(over \/ empty) =>
                     /\ last'.called
                     /\ last'.result = last'.output
                     /\ Len(messages') = Len(messages) + 1
                     /\ SubSeq(messages', 1, Len(messages)) = messages
                     /\ Last(messages').message
                           = <<"*", "A", "n", " ", "i", "m", "a", "g", "e", " ", "o", "f", " ">>
                             \o last'.output
                     /\ Last(messages').username = last'.image.username
                     /\ Last(messages').time = last'.image.time
                     /\ Last(messages').thread \in DOMAIN threads'
                     /\ threads'[Last(messages').thread].thread_name = last'.thread_name
                     /\ threads'[Last(messages').thread].platform = self_platform
                     /\ \/ threads' = threads
                        \/ /\ Len(threads') = Len(threads) + 1
                           /\ SubSeq(threads', 1, Len(threads)) = threads
                           /\ \A t \in DOMAIN threads :
                                 threads[t].thread_name # last'.thread_name
                     /\ completions' = completions /\ bots' = bots ]_vars

\* C16 happens: an image over the ceiling was turned away, without a call of
\* the captioning service, by a store that holds the caption of an earlier
\* image
C16_Witness ==
    /\ last.op = "save_image_to_context"
    /\ last.image.bytes > MAX_IMAGE_SIZE_MB * 1048576
    /\ last.result = "None"
    /\ ~last.called
    /\ \E m \in DOMAIN messages :
          SubSeq(messages[m].message, 1, 2) = <<"*", "A">>

-----------------------------------------------------------------------------
(* summarise_url (checked under SpecSummary) *)

\* the text holds the words NO CONTENT, each letter in either case
SaysNoContent(text) ==
    LET lower == <<"n", "o", " ", "c", "o", "n", "t", "e", "n", "t">>
    IN  \E i \in 1..Len(text) :
           /\ i + 9 <= Len(text)
           /\ \A j \in 1..10 : text[i + j - 1] \in {NO_CONTENT[j], lower[j]}

\* C17: summarise_url returns None and leaves the store as it is when the
\* fetch fails or returns nothing, when the extraction fails, when the
\* language-model call fails, and when the result says NO CONTENT in any
\* letter case; otherwise it stores the triggering message unless the store
\* has it, and records one Completion that replies to it.
C17_SummaryStoredOnlyOnContent ==
    [][ ( /\ last'.op = "summarise_url"
          /\ keys.OPENAI_KEY )
        => LET failed == \/ ~last'.resp
                         \/ last'.body_len = 0
                         \/ ~last'.extracted
                         \/ ~last'.llm_ok
                         \/ SaysNoContent(last'.content)
           IN  /\ last'.outcome = "returned"
               /\ failed =>
                     /\ last'.result = "None"
                     /\ messages' = messages /\ threads' = threads
                     /\ completions' = completions /\ bots' = bots
               /\ ~failed =>
                     /\ last'.result # "None"
                     /\ \/ messages' = messages /\ TupleIn(last'.msg, messages)
                        \/ /\ ~TupleIn(last'.msg, messages)
                           /\ Len(messages') = Len(messages) + 1
                           /\ SubSeq(messages', 1, Len(messages)) = messages
                           /\ Tuple(Last(messages')) = Tuple(last'.msg)
                     /\ Len(completions') = Len(completions) + 1
                     /\ SubSeq(completions', 1, Len(completions)) = completions
                     /\ Last(completions').message = last'.result
                     /\ Last(completions').reply_to \in DOMAIN messages'
                     /\ Tuple(messages'[Last(completions').reply_to]) = Tuple(last'.msg)
                     /\ bots' = bots ]_vars

\* C17 happens: the page was fetched and extracted and the language model
\* answered "no content" in lower case, and the store, which holds rows of
\* an earlier call, was left alone
C17_Witness ==
    /\ last.op = "summarise_url"
    /\ last.resp /\ last.body_len > 0 /\ last.extracted /\ last.llm_ok
    /\ last.content = <<"n", "o", " ", "c", "o", "n", "t", "e", "n", "t">>
    /\ last.result = "None"
    /\ messages # <<>>
    /\ completions # <<>>

-----------------------------------------------------------------------------
(* The keys (checked under SpecCredentials) *)

\* C18: without the key it needs, each of gpt_answer (OPENAI_KEY),
\* save_image_to_context (REPLICATE_KEY) and summarise_url (OPENAI_KEY)
\* raises at once: no service is called and the store is left as it is.
C18_MissingKeyRaisesAtOnce ==
    [][ ( \/ last'.op \in {"gpt_answer", "summarise_url"} /\ ~keys.OPENAI_KEY
          \/ last'.op = "save_image_to_context" /\ ~keys.REPLICATE_KEY )
        => /\ last'.outcome = "raised"
           /\ last'.op = "save_image_to_context" => ~last'.called
           /\ last'.op = "summarise_url" => ~last'.fetched
           /\ messages' = messages /\ threads' = threads
           /\ completions' = completions /\ bots' = bots ]_vars

-----------------------------------------------------------------------------
(* Two gpt_answer calls at the same time (checked under SpecConcurrent) *)

\* C19: calls whose windows list each message once put two Message rows with
\* the same {username, text, timestamp} into one thread only by running at
\* the same time: whenever the commit of a call makes the first such pair,
\* the older row of the pair was committed by another call after this call
\* had looked the message up, and before this call committed.  So calls that
\* run one after another keep the rows of a thread distinct.
C19_DuplicateOnlyWhenInterleaved ==
    [][ \A p \in Callers :
          ( /\ calls[p].pc = "commit"
            /\ calls'[p].pc = "llm"
            /\ NoDuplicateRows(messages)
            /\ ~NoDuplicateRows(messages') )
          => \E i \in DOMAIN calls[p].pending :
                \E m \in DOMAIN messages :
                    /\ m > calls[p].seen[i]
                    /\ messages[m].thread = calls[p].pending[i].thread
                    /\ Tuple(messages[m]) = Tuple(calls[p].pending[i]) ]_vars

\* C19 happens: both callers have committed, for the same thread, a row for
\* a message of a user that the store did not hold when either of them
\* looked it up, and the thread holds the two equal rows
C19_Witness ==
    /\ calls[1].pc = "llm"
    /\ calls[2].pc = "llm"
    /\ calls[1].tid = calls[2].tid
    /\ \E i \in DOMAIN calls[1].pending, j \in DOMAIN calls[2].pending :
          /\ calls[1].pending[i] = calls[2].pending[j]
          /\ calls[1].seen[i] = 0
          /\ calls[2].seen[j] = 0
    /\ ~NoDuplicateRows(messages)

-----------------------------------------------------------------------------
(* The loop of __format_context ends (checked under SpecTrimFair) *)

\* C20: the while loop of __format_context never pops from an empty list and
\* always ends: token_count is the total cost of the entries still in
\* gpt_context all along, and a call that has entered the loop returns, with
\* token_count <= MAX_GPT_TOKENS.
C20_TrimLoopTerminates ==
    /\ [](/\ fc.pc # "IndexError"
          /\ fc.pc \in {"while", "return"} =>
                fc.token_count = count_tokens(fc.gpt_context)
          /\ fc.pc = "return" => fc.token_count <= MAX_GPT_TOKENS)
    /\ (fc.pc = "while") ~> (fc.pc = "return")

\* C20 happens: a context of several entries, the newest of them alone over
\* the budget, came back with every entry dropped
C20_Witness ==
    /\ fc.pc = "return"
    /\ Len(fc.context) >= 2
    /\ estimate_tokens(format_entry(Last(fc.context)).content) > MAX_GPT_TOKENS
    /\ fc.gpt_context = <<>>
    /\ fc.token_count = 0
    /\ fc.result = system_messages

-----------------------------------------------------------------------------
(* The bot's own-name echo in a generated text (checked under SpecEcho) *)

\* the text with "<bot username>: " taken off where the text opens with it,
\* and leading whitespace dropped
strip_leading_username(completion) ==
    LET echo == self_username \o <<":", " ">>
    IN  lstrip(IF OccursAt(completion, echo, 1)
               THEN SubSeq(completion, Len(echo) + 1, Len(completion))
               ELSE completion)

\* C21: gpt_answer removes "<bot username>: " from the language model's text
\* only where the text opens with it: an occurrence later in the text is kept
\* in the text returned and in the text of the Completion stored, and the
\* text returned is the text stored.
C21_LeadingEchoOnlyStripped ==
    [][ ( /\ last'.op = "gpt_answer"
          /\ last'.outcome = "returned"
          /\ last'.llm_ok )
        => /\ last'.result = strip_leading_username(last'.content)
           /\ Len(completions') = Len(completions) + 1
           /\ Last(completions').message = last'.result ]_vars

====
